---- MODULE Spec2Model ----
(***************************************************************************)
(* Whispr GNOME-Shell indicator: file-based state synchronisation and      *)
(* presentation state machine (WhisprOverlayExtension).                    *)
(*                                                                         *)
(* Time is in milliseconds.  GLib timeout sources fire exactly when due    *)
(* (time never advances past an outstanding source).  Levels are fixed     *)
(* point numbers with denominator LevelScale.                              *)
(***************************************************************************)
EXTENDS Integers, Sequences, FiniteSets, TLC

VARIABLES
    this,          \* the fields of the extension object
    sources,       \* GLib main-loop timeout sources that are alive
    now,           \* Date.now()
    pc,            \* "loadOverlay" | "loadTray" (inside enable) | "enabled" | "disabled"
    stateFile,     \* contents of overlay.json
    trayFile,      \* contents of tray.json
    spawned,       \* command lines handed to GLib.spawn_command_line_async
    lastOverlayLoad, \* history: what the latest _loadOverlayState read
    lastTrayLoad,    \* history: what the latest _loadTrayState read
    notif,         \* history: per document, the notifications and debounce reloads;
                   \* the number of presses of the primary button
    host,          \* the WHISPR_BIN environment variable and overlay-config.json
    budget         \* the environment events left and the time the model follows

vars == <<this, sources, now, pc, stateFile, trayFile, spawned,
          lastOverlayLoad, lastTrayLoad, notif, host, budget>>

----------------------------------------------------------------------------
(* Program constants *)

STATE_FILE == "overlay.json"
TRAY_FILE == "tray.json"

\* String.prototype.replace(/\.json$/i, '.tmp') on a lower-case name
ReplaceJsonSuffix(name) ==
    IF Len(name) >= 5 /\ SubSeq(name, Len(name) - 4, Len(name)) = ".json"
    THEN SubSeq(name, 1, Len(name) - 5) \o ".tmp"
    ELSE name

STATE_TMP_FILE == ReplaceJsonSuffix(STATE_FILE)
TRAY_TMP_FILE == ReplaceJsonSuffix(TRAY_FILE)

BAR_COUNT == 10
BAR_MAX_HEIGHT == 26
BAR_MIN_HEIGHT == 10
\* BAR_WEIGHTS, in hundredths
BAR_WEIGHTS == <<35, 55, 80, 100, 90, 90, 100, 80, 55, 35>>
DOUBLE_CLICK_MS == 220
SUCCESS_FLASH_MS == 3000
ERROR_FLASH_MS == 4000
STALE_STATE_MS == 5000
LOAD_OVERLAY_DELAY_MS == 60
LOAD_TRAY_DELAY_MS == 120
POLL_INTERVAL_MS == 1000
METER_INTERVAL_MS == 150
CLOCK_INTERVAL_MS == 1000
\* smoothing gains 0.45 and 0.2, in hundredths
ATTACK_GAIN == 45
RELEASE_GAIN == 20
\* the number 1.0 of a level
LevelScale == 100

----------------------------------------------------------------------------
(* Bounds of the model *)

StartMs == 100000       \* Date.now() when enable() runs
Horizon == 1300         \* the model follows this many ms after enable()
SmallStepMs == 40       \* a step of time inside a debounce or click window
MaxEvents == 3          \* writes, 'changed' signals, clicks, disable
LoadEvents == 2         \* the same where every document is tried
CrashEvents == 1        \* the same where the writer falls silent
CommandEvents == 2      \* the same where the host's command settings vary
CrashHorizon == 6400
IdleStepMs == 1000
FlashHorizon == 4500

MaxNow == StartMs + Horizon

----------------------------------------------------------------------------
(* JavaScript values.  Every value is [t, n, s] so that any two compare.   *)

Undefined == [t |-> "undefined", n |-> 0, s |-> ""]
Null == [t |-> "null", n |-> 0, s |-> ""]
Bool(b) == [t |-> "boolean", n |-> IF b THEN 1 ELSE 0, s |-> ""]
Num(n) == [t |-> "number", n |-> n, s |-> ""]
\* a number that is not finite (JSON.parse("1e999") is Infinity)
Infinity == [t |-> "number", n |-> 0, s |-> "Infinity"]
Str(s) == [t |-> "string", n |-> 0, s |-> s]
Obj == [t |-> "object", n |-> 0, s |-> ""]

\* ToBoolean
Truthy(v) ==
    CASE v.t = "undefined" -> FALSE
      [] v.t = "null" -> FALSE
      [] v.t = "boolean" -> v.n = 1
      [] v.t = "number" -> v.s = "Infinity" \/ v.n # 0
      [] v.t = "string" -> v.s # ""
      [] OTHER -> TRUE

\* Number.isFinite: no coercion, a number that is neither NaN nor infinite
NumberIsFinite(v) == v.t = "number" /\ v.s = ""

\* typeof v === 'string'
IsString(v) == v.t = "string"

Max(a, b) == IF a >= b THEN a ELSE b
Min(a, b) == IF a <= b THEN a ELSE b

----------------------------------------------------------------------------
(* The two documents.  A file is what Gio.File.load_contents gives and what *)
(* the decoded text parses to:                                              *)
(*   read  : "throws" (missing or unreadable), "notok", "ok"                *)
(*   utf8  : the bytes are valid UTF-8.  new TextDecoder('utf-8') is not    *)
(*           fatal: an invalid byte decodes to U+FFFD and decode() returns  *)
(*   parse : what JSON.parse does with the decoded text: "SyntaxError",     *)
(*           or the kind of the top-level value "null", "scalar", "object"  *)
(*   data  : the properties the code reads (Undefined when absent)          *)

NoStateData ==
    [recording |-> Undefined, started_at_ms |-> Undefined,
     level |-> Undefined, updated_at_ms |-> Undefined]

StateObject(recording, started, level, updated) ==
    [read |-> "ok", utf8 |-> TRUE, parse |-> "object",
     data |-> [recording |-> recording, started_at_ms |-> started,
               level |-> level, updated_at_ms |-> updated]]

StateMissing == [read |-> "throws", utf8 |-> TRUE, parse |-> "SyntaxError", data |-> NoStateData]
StateNotOk == [read |-> "notok", utf8 |-> TRUE, parse |-> "SyntaxError", data |-> NoStateData]
StateTruncated == [read |-> "ok", utf8 |-> TRUE, parse |-> "SyntaxError", data |-> NoStateData]
StateBadBytes == [read |-> "ok", utf8 |-> FALSE, parse |-> "SyntaxError", data |-> NoStateData]
StateJsonNull == [read |-> "ok", utf8 |-> TRUE, parse |-> "null", data |-> NoStateData]
StateJsonScalar == [read |-> "ok", utf8 |-> TRUE, parse |-> "scalar", data |-> NoStateData]

\* the same object with an invalid byte inside one of its string literals
WithBadByteInString(file) == [file EXCEPT !.utf8 = FALSE]

\* The documents the writer may leave at time t (levels in 1/LevelScale).
FewStateDocs(t) ==
    { StateMissing,
      StateObject(Bool(FALSE), Undefined, Num(30), Num(t)),
      StateObject(Bool(TRUE), Num(t - 65000), Num(50), Num(t)) }

StateDocs(t) ==
    { StateMissing, StateNotOk, StateTruncated, StateBadBytes, StateJsonNull,
      StateJsonScalar,
      StateObject(Bool(FALSE), Undefined, Num(30), Num(t)),
      StateObject(Bool(TRUE), Num(t - 65000), Num(50), Num(t)),
      StateObject(Bool(TRUE), Undefined, Num(150), Num(t)),
      StateObject(Bool(TRUE), Num(t - 65000), Num(50), Num(t - STALE_STATE_MS)),
      StateObject(Bool(TRUE), Num(t - 65000), Num(50), Num(t - STALE_STATE_MS - 1)),
      StateObject(Bool(TRUE), Num(t - 65000), Num(50), Undefined),
      StateObject(Bool(TRUE), Num(t - 65000), Num(50), Num(0)),
      StateObject(Bool(TRUE), Str("soon"), Str("loud"), Infinity),
      StateObject(Bool(TRUE), Num(0), Num(-50), Str("yesterday")),
      StateObject(Str("false"), Num(t - 65000), Num(50), Num(t)),
      StateObject(Num(1), Undefined, Num(50), Num(t)),
      WithBadByteInString(StateObject(Bool(TRUE), Num(t - 65000), Num(50), Num(t))) }

\* An entry of recent: kind "object", "null" or "scalar"
Item(kind, preview, text) == [kind |-> kind, preview |-> preview, text |-> text]

\* hotkeys: kind is the JavaScript type of the value
Hotkeys(kind, recordToggle, openApp) ==
    [kind |-> kind, record_toggle |-> recordToggle, open_app |-> openApp]

NoHotkeys == Hotkeys("undefined", Undefined, Undefined)

\* recent: kind "array", or the type of a value that is no array
Recent(kind, items) == [kind |-> kind, items |-> items]

NoTrayData ==
    [recent |-> Recent("undefined", <<>>), last_transcript_at_ms |-> Undefined,
     last_error_at_ms |-> Undefined, last_error |-> Undefined, hotkeys |-> NoHotkeys]

TrayObject(recent, transcriptAt, errorAt, error, hotkeys) ==
    [read |-> "ok", utf8 |-> TRUE, parse |-> "object",
     data |-> [recent |-> recent, last_transcript_at_ms |-> transcriptAt,
               last_error_at_ms |-> errorAt, last_error |-> error, hotkeys |-> hotkeys]]

TrayMissing == [read |-> "throws", utf8 |-> TRUE, parse |-> "SyntaxError", data |-> NoTrayData]
TrayTruncated == [read |-> "ok", utf8 |-> TRUE, parse |-> "SyntaxError", data |-> NoTrayData]
TrayJsonNull == [read |-> "ok", utf8 |-> TRUE, parse |-> "null", data |-> NoTrayData]

GoodItem == Item("object", Str("hello"), Str("hello world"))
TextItem == Item("object", Undefined, Str("note"))
NullItem == Item("null", Undefined, Undefined)
ScalarItem == Item("scalar", Undefined, Undefined)

FewTrayDocs(t) ==
    { TrayMissing,
      TrayObject(Recent("array", <<GoodItem, TextItem>>), Num(t - 2500), Undefined,
                 Undefined, Hotkeys("object", Str("F9"), Undefined)) }

TrayDocs(t) ==
    { TrayMissing, TrayTruncated, TrayJsonNull,
      TrayObject(Recent("array", <<GoodItem, TextItem>>), Num(t - 2500), Undefined,
                 Undefined, Hotkeys("object", Str("F9"), Undefined)),
      TrayObject(Recent("array", <<>>), Undefined, Num(t - 1000), Str("no microphone"),
                 NoHotkeys),
      TrayObject(Recent("array", <<GoodItem>>), Num(t - 500), Num(t - 1000),
                 Str("no microphone"), NoHotkeys),
      TrayObject(Recent("array", <<GoodItem>>), Num(t - 500), Num(t - ERROR_FLASH_MS - 500),
                 Str("no microphone"), NoHotkeys),
      TrayObject(Recent("array", <<GoodItem, NullItem, TextItem>>), Undefined, Num(t),
                 Str("no microphone"), NoHotkeys),
      TrayObject(Recent("array", <<ScalarItem>>), Num(0), Infinity, Null,
                 Hotkeys("array", Undefined, Undefined)),
      TrayObject(Recent("string", <<>>), Str("now"), Num(t - 1000), Num(5),
                 Hotkeys("string", Undefined, Undefined)) }

\* tray documents whose timestamps start, overlap and outlive the flash windows
FlashTrayDocs(t) ==
    { TrayMissing,
      TrayObject(Recent("array", <<>>), Undefined, Num(t - 1000), Str("no microphone"),
                 NoHotkeys),
      TrayObject(Recent("array", <<GoodItem>>), Num(t - 500), Undefined, Undefined,
                 NoHotkeys),
      TrayObject(Recent("array", <<GoodItem>>), Num(t - 500), Num(t - ERROR_FLASH_MS - 500),
                 Str("no microphone"), NoHotkeys),
      TrayObject(Recent("array", <<GoodItem>>), Num(t - 500), Num(t - 1000),
                 Str("no microphone"), NoHotkeys),
      TrayObject(Recent("array", <<GoodItem>>), Num(t - 200), Num(t - 3500),
                 Str("no microphone"), NoHotkeys) }

TrayDocsOf(kind, t) ==
    CASE kind = "all" -> TrayDocs(t)
      [] kind = "flash" -> FlashTrayDocs(t)
      [] OTHER -> FewTrayDocs(t)

----------------------------------------------------------------------------
(* The extension object after the field initialisers and widget builders of *)
(* enable().  A timer id field holds 0 for null.                            *)

EnabledThis(monitorOk) ==
    [_recording |-> FALSE, _startedAtMs |-> Null, _level |-> 0, _levelTarget |-> 0,
     _lastTranscriptAtMs |-> Null, _lastErrorAtMs |-> Null, _lastError |-> Null,
     _trayRecent |-> Recent("array", <<>>),
     _hotkeys |-> Hotkeys("object", Undefined, Undefined),
     _meterTimerId |-> 0, _clockTimerId |-> 0, _pollTimerId |-> 0, _clickTimerId |-> 0,
     _statusTimerId |-> 0, _loadOverlayTimerId |-> 0, _loadTrayTimerId |-> 0,
     _monitor |-> monitorOk,
     _overlay |-> [exists |-> TRUE, visible |-> FALSE],
     _timeLabel |-> [visible |-> TRUE, text |-> "0:00"],
     _bars |-> [i \in 1..BAR_COUNT |-> BAR_MIN_HEIGHT],
     _indicatorIcon |-> [exists |-> TRUE, icon_name |-> "audio-input-microphone-symbolic",
                         style_class |-> ""],
     _toggleItem |-> [exists |-> TRUE, text |-> "Start Recording"],
     _openItem |-> [text |-> "Open App"],
     _recentMenu |-> [exists |-> TRUE, items |-> <<"No recent transcripts">>]]

(* A handler runs on a machine m: the object, the main loop's sources, the  *)
(* clock, whether an exception has escaped, and the commands spawned.       *)
Machine(t, srcs, clock, cmds) ==
    [this |-> t, sources |-> srcs, now |-> clock, threw |-> FALSE, spawned |-> cmds]

TimerFields ==
    {"_meterTimerId", "_clockTimerId", "_pollTimerId", "_clickTimerId",
     "_statusTimerId", "_loadOverlayTimerId", "_loadTrayTimerId"}

UsedIds(m) == {s.id : s \in m.sources} \cup {m.this[f] : f \in TimerFields}

\* GLib hands out a source id that no live source and no field holds
NewId(m) ==
    CHOOSE i \in 1..(Cardinality(TimerFields) + 1) :
        i \notin UsedIds(m) /\ \A j \in 1..(i - 1) : j \in UsedIds(m)

\* this[field] = GLib.timeout_add(PRIORITY_DEFAULT, delay, cb)
timeout_add(m, field, cb, delay) ==
    LET id == NewId(m) IN
    [m EXCEPT !.sources = @ \cup {[id |-> id, cb |-> cb, due |-> m.now + delay]},
              !.this[field] = id]

\* GLib.source_remove(id)
source_remove(m, id) == [m EXCEPT !.sources = {s \in @ : s.id # id}]

\* if (this[field]) { GLib.source_remove(this[field]); this[field] = null; }
ClearTimer(m, field) ==
    IF m.this[field] # 0
    THEN [source_remove(m, m.this[field]) EXCEPT !.this[field] = 0]
    ELSE m

_stopMeter(m) == ClearTimer(m, "_meterTimerId")

_stopClock(m) == ClearTimer(m, "_clockTimerId")

_clearClickTimer(m) == ClearTimer(m, "_clickTimerId")

_clearStatusTimer(m) == ClearTimer(m, "_statusTimerId")

_clearLoadTimers(m) == ClearTimer(ClearTimer(m, "_loadOverlayTimerId"), "_loadTrayTimerId")

\* (mutation) a running meter timer is removed and started again
_startMeter_restarts(m) ==
    timeout_add(ClearTimer(m, "_meterTimerId"), "_meterTimerId", "meter", METER_INTERVAL_MS)

_startMeter(m) ==
    IF m.this._meterTimerId # 0 THEN m
    ELSE timeout_add(m, "_meterTimerId", "meter", METER_INTERVAL_MS)

\* (mutation) the seconds are not padded
PadStart2_unpadded(n) == ToString(n)

\* seconds.toString().padStart(2, '0')
PadStart2(n) == IF n < 10 THEN "0" \o ToString(n) ELSE ToString(n)

_updateClock(m) ==
    IF ~Truthy(m.this._startedAtMs) THEN m
    ELSE LET elapsedSec == Max(0, (m.now - m.this._startedAtMs.n) \div 1000)
             minutes == elapsedSec \div 60
             seconds == elapsedSec % 60
         IN [m EXCEPT !.this._timeLabel.text = ToString(minutes) \o ":" \o PadStart2(seconds)]

_startClock(m) ==
    IF ~Truthy(m.this._startedAtMs)
    THEN [m EXCEPT !.this._timeLabel.text = ""]
    ELSE LET m1 == _updateClock(m) IN
         IF m1.this._clockTimerId # 0 THEN m1
         ELSE timeout_add(m1, "_clockTimerId", "clock", CLOCK_INTERVAL_MS)

\* (mutation) the flash-expiry timer is never armed
_scheduleStatusRefresh_unarmed(m) == _clearStatusTimer(m)

_scheduleStatusRefresh(m) ==
    LET m1 == _clearStatusTimer(m)
        t == m1.this
        \* 0 stands for a null nextDelay: the code returns on null and on <= 0 alike
        nextDelay ==
            IF Truthy(t._lastErrorAtMs)
            THEN ERROR_FLASH_MS - (m1.now - t._lastErrorAtMs.n)
            ELSE IF Truthy(t._lastTranscriptAtMs)
                 THEN SUCCESS_FLASH_MS - (m1.now - t._lastTranscriptAtMs.n)
                 ELSE 0
    IN IF nextDelay <= 0 THEN m1
       ELSE timeout_add(m1, "_statusTimerId", "status", nextDelay)

SetIcon(m, icon, style) ==
    [m EXCEPT !.this._indicatorIcon.icon_name = icon,
              !.this._indicatorIcon.style_class = style]

\* (mutation) the success flash is tested before the error flash
_updateIndicator_successFirst(m) ==
    LET t == m.this IN
    IF ~t._indicatorIcon.exists THEN m
    ELSE IF t._recording
    THEN SetIcon(m, "media-record-symbolic", "whispr-indicator-recording")
    ELSE IF Truthy(t._lastTranscriptAtMs)
            /\ m.now - t._lastTranscriptAtMs.n < SUCCESS_FLASH_MS
    THEN _scheduleStatusRefresh(
             SetIcon(m, "emblem-ok-symbolic", "whispr-indicator-success"))
    ELSE IF Truthy(t._lastErrorAtMs) /\ m.now - t._lastErrorAtMs.n < ERROR_FLASH_MS
    THEN _scheduleStatusRefresh(
             SetIcon(m, "dialog-warning-symbolic", "whispr-indicator-error"))
    ELSE _clearStatusTimer(SetIcon(m, "audio-input-microphone-symbolic", ""))

\* (mutation) a success flash is shown only while no error timestamp is cached
_updateIndicator_noSuccessAfterError(m) ==
    LET t == m.this IN
    IF ~t._indicatorIcon.exists THEN m
    ELSE IF t._recording
    THEN SetIcon(m, "media-record-symbolic", "whispr-indicator-recording")
    ELSE IF Truthy(t._lastErrorAtMs) /\ m.now - t._lastErrorAtMs.n < ERROR_FLASH_MS
    THEN _scheduleStatusRefresh(
             SetIcon(m, "dialog-warning-symbolic", "whispr-indicator-error"))
    ELSE IF ~Truthy(t._lastErrorAtMs) /\ Truthy(t._lastTranscriptAtMs)
            /\ m.now - t._lastTranscriptAtMs.n < SUCCESS_FLASH_MS
    THEN _scheduleStatusRefresh(
             SetIcon(m, "emblem-ok-symbolic", "whispr-indicator-success"))
    ELSE _clearStatusTimer(SetIcon(m, "audio-input-microphone-symbolic", ""))

\* (mutation) the flashes are tested before recording
_updateIndicator_flashOverRecording(m) ==
    LET t == m.this IN
    IF ~t._indicatorIcon.exists THEN m
    ELSE IF Truthy(t._lastErrorAtMs) /\ m.now - t._lastErrorAtMs.n < ERROR_FLASH_MS
    THEN _scheduleStatusRefresh(
             SetIcon(m, "dialog-warning-symbolic", "whispr-indicator-error"))
    ELSE IF Truthy(t._lastTranscriptAtMs)
            /\ m.now - t._lastTranscriptAtMs.n < SUCCESS_FLASH_MS
    THEN _scheduleStatusRefresh(
             SetIcon(m, "emblem-ok-symbolic", "whispr-indicator-success"))
    ELSE IF t._recording
    THEN SetIcon(m, "media-record-symbolic", "whispr-indicator-recording")
    ELSE _clearStatusTimer(SetIcon(m, "audio-input-microphone-symbolic", ""))

_updateIndicator(m) ==
    LET t == m.this IN
    IF ~t._indicatorIcon.exists THEN m
    ELSE IF t._recording
    THEN SetIcon(m, "media-record-symbolic", "whispr-indicator-recording")
    ELSE IF Truthy(t._lastErrorAtMs) /\ m.now - t._lastErrorAtMs.n < ERROR_FLASH_MS
    THEN _scheduleStatusRefresh(
             SetIcon(m, "dialog-warning-symbolic", "whispr-indicator-error"))
    ELSE IF Truthy(t._lastTranscriptAtMs)
            /\ m.now - t._lastTranscriptAtMs.n < SUCCESS_FLASH_MS
    THEN _scheduleStatusRefresh(
             SetIcon(m, "emblem-ok-symbolic", "whispr-indicator-success"))
    ELSE _clearStatusTimer(
             [m EXCEPT !.this._indicatorIcon.icon_name = "audio-input-microphone-symbolic",
                       !.this._indicatorIcon.style_class = ""])

\* `${value}` of a hotkey value
TemplateString(v) ==
    CASE v.t = "string" -> v.s
      [] v.t = "number" -> IF v.s = "" THEN ToString(v.n) ELSE v.s
      [] v.t = "boolean" -> IF v.n = 1 THEN "true" ELSE "false"
      [] OTHER -> "[object Object]"

\* the label of one entry of the recent submenu
ItemLabel(item) ==
    LET preview == IF IsString(item.preview) /\ Len(item.preview.s) > 0
                   THEN item.preview.s
                   ELSE IF IsString(item.text) THEN item.text.s ELSE ""
    IN IF Len(preview) > 0 THEN preview ELSE "Untitled transcript"

\* the index of the first entry whose property read throws a TypeError, or 0
FirstNullItem(items) ==
    IF \E i \in 1..Len(items) : items[i].kind = "null"
    THEN CHOOSE i \in 1..Len(items) :
             items[i].kind = "null" /\ \A j \in 1..(i - 1) : items[j].kind # "null"
    ELSE 0

_refreshMenu(m) ==
    LET t == m.this
        label == IF t._recording THEN "Stop Recording" ELSE "Start Recording"
        toggleKey == t._hotkeys.record_toggle
        openKey == t._hotkeys.open_app
        m1 == IF t._toggleItem.exists
              THEN [m EXCEPT !.this._toggleItem.text =
                        IF Truthy(toggleKey)
                        THEN label \o "  (" \o TemplateString(toggleKey) \o ")"
                        ELSE label]
              ELSE m
        m2 == [m1 EXCEPT !.this._openItem.text =
                   IF Truthy(openKey)
                   THEN "Open App  (" \o TemplateString(openKey) \o ")"
                   ELSE "Open App"]
        items == t._trayRecent.items
        bad == FirstNullItem(items)
    IN IF ~t._recentMenu.exists THEN m2
       ELSE IF Len(items) = 0
       THEN [m2 EXCEPT !.this._recentMenu.items = <<"No recent transcripts">>]
       ELSE IF bad # 0
       THEN \* forEach stops at the TypeError; nothing catches it
            [m2 EXCEPT !.this._recentMenu.items = [i \in 1..(bad - 1) |-> ItemLabel(items[i])],
                       !.threw = TRUE]
       ELSE [m2 EXCEPT !.this._recentMenu.items =
                 [i \in 1..Len(items) |-> ItemLabel(items[i])]
                 \o <<"---", "Show All Transcripts">>]

\* (mutation) showing the overlay forgets the cached error
_showOverlay_clearsError(m, startedAtMs) ==
    LET m1 == [m EXCEPT !.this._recording = TRUE,
                        !.this._startedAtMs = startedAtMs,
                        !.this._timeLabel.visible = Truthy(startedAtMs),
                        !.this._overlay.visible = TRUE,
                        !.this._lastErrorAtMs = Null,
                        !.this._lastError = Null]
    IN _refreshMenu(_updateIndicator(_startClock(_startMeter(m1))))

_showOverlay(m, startedAtMs) ==
    LET m1 == [m EXCEPT !.this._recording = TRUE,
                        !.this._startedAtMs = startedAtMs,
                        !.this._timeLabel.visible = Truthy(startedAtMs),
                        !.this._overlay.visible = TRUE]
    IN _refreshMenu(_updateIndicator(_startClock(_startMeter(m1))))

\* (mutation) the levels are not zeroed when the overlay is hidden
_hideOverlay_keepsLevel(m) ==
    LET m1 == [m EXCEPT !.this._recording = FALSE,
                        !.this._startedAtMs = Null,
                        !.this._timeLabel.visible = FALSE,
                        !.this._overlay.visible = FALSE]
    IN _refreshMenu(_updateIndicator(_stopClock(_stopMeter(m1))))

_hideOverlay(m) ==
    LET m1 == [m EXCEPT !.this._recording = FALSE,
                        !.this._startedAtMs = Null,
                        !.this._timeLabel.visible = FALSE,
                        !.this._level = 0,
                        !.this._levelTarget = 0,
                        !.this._overlay.visible = FALSE]
    IN _refreshMenu(_updateIndicator(_stopClock(_stopMeter(m1))))

\* the try block of a load: does load_contents, decode or JSON.parse or the
\* first property read throw?  (a property read of null is a TypeError)
TryThrows(file) ==
    \/ file.read = "throws"
    \/ file.read = "ok" /\ file.parse \in {"SyntaxError", "null"}

\* (mutation) the level is taken from the document without clamping
ParseOverlayState_unclamped(file) ==
    IF TryThrows(file) \/ file.read # "ok"
    THEN [recording |-> FALSE, startedAtMs |-> Null, level |-> 0, updatedAtMs |-> Null]
    ELSE LET data == file.data IN
         [recording |-> Truthy(data.recording),
          startedAtMs |-> IF NumberIsFinite(data.started_at_ms)
                          THEN data.started_at_ms ELSE Null,
          level |-> IF NumberIsFinite(data.level) THEN data.level.n ELSE 0,
          updatedAtMs |-> IF NumberIsFinite(data.updated_at_ms)
                          THEN data.updated_at_ms ELSE Null]

\* the locals of _loadOverlayState after its try/catch
ParseOverlayState(file) ==
    IF TryThrows(file) \/ file.read # "ok"
    THEN [recording |-> FALSE, startedAtMs |-> Null, level |-> 0, updatedAtMs |-> Null]
    ELSE LET data == file.data IN
         [recording |-> Truthy(data.recording),
          startedAtMs |-> IF NumberIsFinite(data.started_at_ms)
                          THEN data.started_at_ms ELSE Null,
          level |-> IF NumberIsFinite(data.level)
                    THEN Max(0, Min(LevelScale, data.level.n)) ELSE 0,
          updatedAtMs |-> IF NumberIsFinite(data.updated_at_ms)
                          THEN data.updated_at_ms ELSE Null]

\* recording && updatedAtMs && Date.now() - updatedAtMs > STALE_STATE_MS
IsStale(p, clock) ==
    p.recording /\ Truthy(p.updatedAtMs) /\ clock - p.updatedAtMs.n > STALE_STATE_MS

_loadOverlayState(m, file) ==
    LET p == ParseOverlayState(file)
        q == IF IsStale(p, m.now)
             THEN [p EXCEPT !.recording = FALSE, !.startedAtMs = Null, !.level = 0]
             ELSE p
        m1 == [m EXCEPT !.this._levelTarget = q.level]
    IN IF q.recording THEN _showOverlay(m1, q.startedAtMs) ELSE _hideOverlay(m1)

\* the locals of _loadTrayState after its try/catch
ParseTrayState(file) ==
    IF TryThrows(file) \/ file.read # "ok"
    THEN [trayRecent |-> Recent("array", <<>>), lastTranscriptAtMs |-> Null,
          lastErrorAtMs |-> Null, lastError |-> Null,
          hotkeys |-> Hotkeys("object", Undefined, Undefined)]
    ELSE LET data == file.data IN
         [trayRecent |-> IF data.recent.kind = "array"
                         THEN data.recent ELSE Recent("array", <<>>),
          lastTranscriptAtMs |-> IF NumberIsFinite(data.last_transcript_at_ms)
                                 THEN data.last_transcript_at_ms ELSE Null,
          lastErrorAtMs |-> IF NumberIsFinite(data.last_error_at_ms)
                            THEN data.last_error_at_ms ELSE Null,
          lastError |-> IF IsString(data.last_error) THEN data.last_error ELSE Null,
          \* data.hotkeys && typeof data.hotkeys === 'object' (an array is one)
          hotkeys |-> IF data.hotkeys.kind \in {"object", "array"}
                      THEN data.hotkeys ELSE Hotkeys("object", Undefined, Undefined)]

\* (mutation) a read that fails keeps the cached timestamps and error
_loadTrayState_retains(m, file) ==
    LET p == ParseTrayState(file)
        failed == TryThrows(file) \/ file.read # "ok"
        m1 == [m EXCEPT !.this._trayRecent = p.trayRecent,
                        !.this._lastTranscriptAtMs =
                            IF failed THEN @ ELSE p.lastTranscriptAtMs,
                        !.this._lastErrorAtMs = IF failed THEN @ ELSE p.lastErrorAtMs,
                        !.this._lastError = IF failed THEN @ ELSE p.lastError,
                        !.this._hotkeys = p.hotkeys]
        m2 == _refreshMenu(m1)
    IN IF m2.threw THEN m2 ELSE _updateIndicator(m2)

_loadTrayState(m, file) ==
    LET p == ParseTrayState(file)
        m1 == [m EXCEPT !.this._trayRecent = p.trayRecent,
                        !.this._lastTranscriptAtMs = p.lastTranscriptAtMs,
                        !.this._lastErrorAtMs = p.lastErrorAtMs,
                        !.this._lastError = p.lastError,
                        !.this._hotkeys = p.hotkeys]
        m2 == _refreshMenu(m1)
    IN IF m2.threw THEN m2 ELSE _updateIndicator(m2)

\* (mutation) the pending check is missing: every notification arms a timer
_scheduleLoadOverlay_unguarded(m) ==
    timeout_add(m, "_loadOverlayTimerId", "loadOverlay", LOAD_OVERLAY_DELAY_MS)

\* (mutation) a pending timer is removed and armed again
_scheduleLoadOverlay_rearmed(m) ==
    timeout_add(ClearTimer(m, "_loadOverlayTimerId"),
                "_loadOverlayTimerId", "loadOverlay", LOAD_OVERLAY_DELAY_MS)

\* (mutation) the tray timer is guarded by the overlay timer's field
_scheduleLoadTray_sharedGuard(m) ==
    IF m.this._loadOverlayTimerId # 0 \/ m.this._loadTrayTimerId # 0 THEN m
    ELSE timeout_add(m, "_loadTrayTimerId", "loadTray", LOAD_TRAY_DELAY_MS)

_scheduleLoadOverlay(m) ==
    IF m.this._loadOverlayTimerId # 0 THEN m
    ELSE timeout_add(m, "_loadOverlayTimerId", "loadOverlay", LOAD_OVERLAY_DELAY_MS)

\* (mutation) the secondary reload is delayed by both windows
_scheduleLoadTray_late(m) ==
    IF m.this._loadTrayTimerId # 0 THEN m
    ELSE timeout_add(m, "_loadTrayTimerId", "loadTray",
                     LOAD_TRAY_DELAY_MS + LOAD_OVERLAY_DELAY_MS)

_scheduleLoadTray(m) ==
    IF m.this._loadTrayTimerId # 0 THEN m
    ELSE timeout_add(m, "_loadTrayTimerId", "loadTray", LOAD_TRAY_DELAY_MS)

\* A Gio.File argument of the 'changed' signal; otherFile may be null
GFile(name) == [exists |-> TRUE, basename |-> name]
NoGFile == [exists |-> FALSE, basename |-> ""]

Basenames(file, otherFile) ==
    (IF file.exists THEN <<file.basename>> ELSE <<>>)
    \o (IF otherFile.exists THEN <<otherFile.basename>> ELSE <<>>)

\* basenames.some((name) => name === a || name === b)
SomeIs(basenames, a, b) ==
    \E i \in 1..Len(basenames) : basenames[i] = a \/ basenames[i] = b

\* (mutation) only the final names are matched, not the temp-write names
ChangedHandler_finalNamesOnly(m, file, otherFile) ==
    LET basenames == Basenames(file, otherFile)
        m1 == IF SomeIs(basenames, STATE_FILE, STATE_FILE)
              THEN _scheduleLoadOverlay(m) ELSE m
    IN IF SomeIs(basenames, TRAY_FILE, TRAY_FILE)
       THEN _scheduleLoadTray(m1) ELSE m1

\* the handler connected to the monitor's 'changed' signal
ChangedHandler(m, file, otherFile) ==
    LET basenames == Basenames(file, otherFile)
        m1 == IF SomeIs(basenames, STATE_FILE, STATE_TMP_FILE)
              THEN _scheduleLoadOverlay(m) ELSE m
    IN IF SomeIs(basenames, TRAY_FILE, TRAY_TMP_FILE)
       THEN _scheduleLoadTray(m1) ELSE m1

\* _watchState: monitor_directory either returns a monitor or throws
_watchState(m, monitorThrows) ==
    IF ~monitorThrows
    THEN [m EXCEPT !.this._monitor = TRUE]
    ELSE timeout_add([m EXCEPT !.this._monitor = FALSE],
                     "_pollTimerId", "poll", POLL_INTERVAL_MS)

\* String.prototype.trim, for blanks
RECURSIVE TrimStart(_)
TrimStart(str) ==
    IF Len(str) > 0 /\ SubSeq(str, 1, 1) = " "
    THEN TrimStart(SubSeq(str, 2, Len(str))) ELSE str

RECURSIVE TrimEnd(_)
TrimEnd(str) ==
    IF Len(str) > 0 /\ SubSeq(str, Len(str), Len(str)) = " "
    THEN TrimEnd(SubSeq(str, 1, Len(str) - 1)) ELSE str

Trim(str) == TrimEnd(TrimStart(str))

\* overlay-config.json: read, parse, the binary property
_readConfigCommand(config) ==
    IF TryThrows(config) \/ config.read # "ok" THEN Null
    ELSE IF IsString(config.data.binary) /\ Len(Trim(config.data.binary.s)) > 0
    THEN Str(Trim(config.data.binary.s))
    ELSE Null

DEFAULT_COMMAND == "whispr"

\* (mutation) the configuration file is consulted before the environment
_resolveCommand_configFirst(h) ==
    LET configCommand == _readConfigCommand(h.configFile) IN
    IF Truthy(configCommand) THEN configCommand.s
    ELSE IF Truthy(h.WHISPR_BIN) /\ Len(Trim(h.WHISPR_BIN.s)) > 0
    THEN Trim(h.WHISPR_BIN.s)
    ELSE DEFAULT_COMMAND

\* host.WHISPR_BIN is GLib.getenv('WHISPR_BIN'): a string or null
_resolveCommand(h) ==
    IF Truthy(h.WHISPR_BIN) /\ Len(Trim(h.WHISPR_BIN.s)) > 0
    THEN Trim(h.WHISPR_BIN.s)
    ELSE LET configCommand == _readConfigCommand(h.configFile) IN
         IF Truthy(configCommand) THEN configCommand.s ELSE DEFAULT_COMMAND

\* GLib.shell_quote of a command without quotes in it
ShellQuote(command) == "'" \o command \o "'"

Spawn(m, h, flag) ==
    [m EXCEPT !.spawned = Append(@, ShellQuote(_resolveCommand(h)) \o " " \o flag)]

_toggleRecording(m, h) == Spawn(m, h, "--toggle")

_openApp(m, h) == Spawn(m, h, "--show")

_openSettings(m, h) == Spawn(m, h, "--show-settings")

_quitApp(m, h) == Spawn(m, h, "--quit")

\* (mutation) a press toggles at once, without a click window
_handlePrimaryClick_immediate(m, h) == _toggleRecording(m, h)

\* (mutation) the second press opens the app but leaves the click timer running
_handlePrimaryClick_keepsTimer(m, h) ==
    IF m.this._clickTimerId # 0
    THEN _openApp(m, h)
    ELSE timeout_add(m, "_clickTimerId", "click", DOUBLE_CLICK_MS)

\* (mutation) the second press opens the app and starts a new click window
_handlePrimaryClick_restartsWindow(m, h) ==
    IF m.this._clickTimerId # 0
    THEN timeout_add(_openApp(_clearClickTimer(m), h),
                     "_clickTimerId", "click", DOUBLE_CLICK_MS)
    ELSE timeout_add(m, "_clickTimerId", "click", DOUBLE_CLICK_MS)

_handlePrimaryClick(m, h) ==
    IF m.this._clickTimerId # 0
    THEN _openApp(_clearClickTimer(m), h)
    ELSE timeout_add(m, "_clickTimerId", "click", DOUBLE_CLICK_MS)

\* Math.round(x / d) for d > 0: floor(x / d + 0.5)
RoundDiv(x, d) == (2 * x + d) \div (2 * d)

\* the callback of the meter timeout
MeterCallback(m) ==
    LET delta == m.this._levelTarget - m.this._level
        smoothing == IF delta > 0 THEN ATTACK_GAIN ELSE RELEASE_GAIN
        level == m.this._level + RoundDiv(delta * smoothing, 100)
        clamped == Max(0, Min(LevelScale, level))
    IN [m EXCEPT !.this._level = level,
                 !.this._bars =
                     [i \in 1..BAR_COUNT |->
                         RoundDiv(BAR_MIN_HEIGHT * LevelScale * 100
                                  + (BAR_MAX_HEIGHT - BAR_MIN_HEIGHT) * clamped
                                    * BAR_WEIGHTS[((i - 1) % Len(BAR_WEIGHTS)) + 1],
                                  LevelScale * 100)]]

\* (mutation) teardown leaves the poll timeout registered
disable_leavesPoll(m) ==
    LET m1 == _clearLoadTimers(_clearStatusTimer(_clearClickTimer(_stopClock(_stopMeter(m)))))
    IN [m1 EXCEPT !.this._monitor = FALSE,
                  !.this._overlay.exists = FALSE,
                  !.this._indicatorIcon.exists = FALSE,
                  !.this._toggleItem.exists = FALSE,
                  !.this._recentMenu.exists = FALSE]

\* (mutation) teardown leaves the click timeout registered
disable_leavesClick(m) ==
    LET m1 == _clearLoadTimers(_clearStatusTimer(_stopClock(_stopMeter(m))))
        m2 == ClearTimer([m1 EXCEPT !.this._monitor = FALSE], "_pollTimerId")
    IN [m2 EXCEPT !.this._overlay.exists = FALSE,
                  !.this._indicatorIcon.exists = FALSE,
                  !.this._toggleItem.exists = FALSE,
                  !.this._recentMenu.exists = FALSE]

disable(m) ==
    LET m1 == _clearLoadTimers(_clearStatusTimer(_clearClickTimer(_stopClock(_stopMeter(m)))))
        m2 == ClearTimer([m1 EXCEPT !.this._monitor = FALSE], "_pollTimerId")
    IN [m2 EXCEPT !.this._overlay.exists = FALSE,
                  !.this._indicatorIcon.exists = FALSE,
                  !.this._toggleItem.exists = FALSE,
                  !.this._recentMenu.exists = FALSE]

----------------------------------------------------------------------------
(* History variables *)

DebounceWindow(doc) == IF doc = "overlay" THEN LOAD_OVERLAY_DELAY_MS ELSE LOAD_TRAY_DELAY_MS

FinalName(doc) == IF doc = "overlay" THEN "overlay.json" ELSE "tray.json"
TempName(doc) == IF doc = "overlay" THEN "overlay.tmp" ELSE "tray.tmp"

\* a notification is relevant to a document when it names its final or temp-write file
Relevant(basenames, doc) ==
    {basenames[i] : i \in 1..Len(basenames)} \cap {FinalName(doc), TempName(doc)} # {}

(* Per document: the burst in progress, its size and the reloads since it   *)
(* began; the latest notification; when the pending timer was armed; and    *)
(* the latest debounce reload.  A burst begins with a notification that     *)
(* arrives more than a debounce window after the previous notification; it  *)
(* is within its window while every notification of it has arrived less     *)
(* than a debounce window after its first.  Times are 0 while there is none.*)
NoNotif ==
    [first |-> 0, n |-> 0, within |-> TRUE, reloads |-> 0, last |-> 0, armedAt |-> 0,
     reloadAt |-> 0, reloadGap |-> 0, reloadLag |-> 0, answered |-> TRUE, since |-> 0]

NoteChanged(g, doc, basenames, wasPending, isPending, t) ==
    IF ~Relevant(basenames, doc) THEN g
    ELSE LET g1 == IF g.n = 0 \/ t > g.last + DebounceWindow(doc)
                   THEN [g EXCEPT !.first = t, !.n = 1, !.within = TRUE, !.reloads = 0]
                   ELSE [g EXCEPT !.n = @ + 1,
                                  !.within = @ /\ t < g.first + DebounceWindow(doc)]
         IN [g1 EXCEPT !.last = t,
                       !.armedAt = IF ~wasPending /\ isPending THEN t ELSE @,
                       !.answered = FALSE,
                       !.since = IF g.answered THEN t ELSE @]

NoteReload(g, t) ==
    [g EXCEPT !.reloads = @ + 1, !.reloadAt = t, !.reloadGap = t - g.last,
              !.reloadLag = t - g.armedAt, !.answered = TRUE]

NoLoad(file) == [file |-> file, at |-> 0, threw |-> FALSE, via |-> "none", indicator |-> FALSE]

Loaded(file, t, m, via, indicator) ==
    [file |-> file, at |-> t, threw |-> m.threw, via |-> via, indicator |-> indicator]

\* a secondary reload, with the icon it found on the indicator
LoadedTray(file, t, before, m, via, indicator) ==
    [file |-> file, at |-> t, threw |-> m.threw, via |-> via, indicator |-> indicator,
     over |-> before.this._indicatorIcon.icon_name]

----------------------------------------------------------------------------
(* Actions *)

M0 == Machine(this, sources, now, spawned)

Commit(m) == this' = m.this /\ sources' = m.sources /\ spawned' = m.spawned

\* The callback of a one-shot timeout returns SOURCE_REMOVE
AfterOneShot(m, s) == [m EXCEPT !.sources = @ \ {s}]

\* The callback of a repeating timeout returns true; when an exception leaves
\* it the return value is false and GLib removes the source as well
AfterRepeating(m, s, interval) ==
    IF m.threw \/ s \notin m.sources
    THEN [m EXCEPT !.sources = @ \ {s}]
    ELSE [m EXCEPT !.sources = (@ \ {s}) \cup {[s EXCEPT !.due = @ + interval]}]

Due(cb) == {s \in sources : s.cb = cb /\ s.due <= now}

ConfigMissing ==
    [read |-> "throws", utf8 |-> TRUE, parse |-> "SyntaxError", data |-> [binary |-> Undefined]]

\* overlay-config.json as the writer of the settings can leave it
ConfigObject(binary) ==
    [read |-> "ok", utf8 |-> TRUE, parse |-> "object", data |-> [binary |-> binary]]

ConfigUnreadable ==
    [read |-> "notok", utf8 |-> TRUE, parse |-> "SyntaxError", data |-> [binary |-> Undefined]]

ConfigTruncated ==
    [read |-> "ok", utf8 |-> TRUE, parse |-> "SyntaxError", data |-> [binary |-> Undefined]]

ConfigBadBytes ==
    [read |-> "ok", utf8 |-> FALSE, parse |-> "SyntaxError", data |-> [binary |-> Undefined]]

ConfigJsonNull ==
    [read |-> "ok", utf8 |-> TRUE, parse |-> "null", data |-> [binary |-> Undefined]]

ConfigDocs ==
    { ConfigMissing, ConfigUnreadable, ConfigTruncated, ConfigBadBytes, ConfigJsonNull,
      ConfigObject(Undefined), ConfigObject(Num(5)), ConfigObject(Str("  ")),
      ConfigObject(Str(" /usr/local/bin/whispr ")) }

\* GLib.getenv('WHISPR_BIN')
EnvValues == { Null, Str(""), Str("  "), Str(" /opt/whispr/whispr-dev") }

DefaultHost == [WHISPR_BIN |-> Null, configFile |-> ConfigMissing]

\* every configuration file without an override, and every value of the
\* override with and without a configured binary
Hosts ==
    [WHISPR_BIN : {Null}, configFile : ConfigDocs]
    \cup [WHISPR_BIN : EnvValues,
          configFile : {ConfigMissing, ConfigObject(Str(" /usr/local/bin/whispr "))}]

InitWith(stateDocs, trayDocs, events, until) ==
    /\ now = StartMs
    /\ \E monitorThrows \in BOOLEAN :
         LET m == _watchState(Machine(EnabledThis(FALSE), {}, StartMs, <<>>), monitorThrows)
         IN this = m.this /\ sources = m.sources
    /\ pc = "loadOverlay"
    /\ stateFile = StateMissing
    /\ trayFile = TrayMissing
    /\ spawned = <<>>
    /\ lastOverlayLoad = NoLoad(StateMissing)
    /\ lastTrayLoad = NoLoad(TrayMissing)
    /\ notif = [overlay |-> NoNotif, tray |-> NoNotif, presses |-> 0]
    /\ host = DefaultHost
    /\ budget = [events |-> events, until |-> until,
                 stateDocs |-> stateDocs, trayDocs |-> trayDocs]

\* the same with the host's command settings drawn from Hosts
InitCommand ==
    /\ now = StartMs
    /\ \E monitorThrows \in BOOLEAN :
         LET m == _watchState(Machine(EnabledThis(FALSE), {}, StartMs, <<>>), monitorThrows)
         IN this = m.this /\ sources = m.sources
    /\ pc = "loadOverlay"
    /\ stateFile = StateMissing
    /\ trayFile = TrayMissing
    /\ spawned = <<>>
    /\ lastOverlayLoad = NoLoad(StateMissing)
    /\ lastTrayLoad = NoLoad(TrayMissing)
    /\ notif = [overlay |-> NoNotif, tray |-> NoNotif, presses |-> 0]
    /\ host \in Hosts
    /\ budget = [events |-> CommandEvents, until |-> MaxNow,
                 stateDocs |-> "few", trayDocs |-> "few"]

Init == InitWith("few", "few", MaxEvents, MaxNow)

\* every primary document is tried
InitOverlay == InitWith("all", "few", LoadEvents, MaxNow)

\* every tray document is tried
InitTray == InitWith("few", "all", LoadEvents, MaxNow)

\* the writer falls silent and the model follows for longer
InitCrash == InitWith("few", "few", CrashEvents, StartMs + CrashHorizon)

\* tray documents with flashes, followed until every flash window has passed
InitFlash == InitWith("few", "flash", LoadEvents, StartMs + FlashHorizon)

\* enable(): this._loadOverlayState()
EnableLoadOverlay ==
    /\ pc = "loadOverlay"
    /\ LET m == _loadOverlayState(M0, stateFile) IN
         /\ Commit(m)
         /\ lastOverlayLoad' = Loaded(stateFile, now, m, "enable", TRUE)
    /\ pc' = "loadTray"
    /\ UNCHANGED <<now, stateFile, trayFile, lastTrayLoad, notif, host, budget>>

\* enable(): this._loadTrayState(); an exception leaves enable() with the
\* monitor or poll timer already installed
EnableLoadTray ==
    /\ pc = "loadTray"
    /\ LET m == _loadTrayState(M0, trayFile) IN
         /\ Commit(m)
         /\ lastTrayLoad' = LoadedTray(trayFile, now, M0, m, "enable", ~m.threw)
    /\ pc' = "enabled"
    /\ UNCHANGED <<now, stateFile, trayFile, lastOverlayLoad, notif, host, budget>>

\* The external writer replaces overlay.json (write to overlay.tmp, rename)
WriteState ==
    /\ pc # "disabled"
    /\ budget.events > 0
    /\ \E doc \in (IF budget.stateDocs = "all" THEN StateDocs(now) ELSE FewStateDocs(now)) :
         /\ doc # stateFile
         /\ stateFile' = doc
    /\ budget' = [budget EXCEPT !.events = @ - 1]
    /\ UNCHANGED <<this, sources, now, pc, trayFile, spawned, lastOverlayLoad,
                   lastTrayLoad, notif, host>>

\* The external writer replaces tray.json
WriteTray ==
    /\ pc # "disabled"
    /\ budget.events > 0
    /\ \E doc \in TrayDocsOf(budget.trayDocs, now) :
         /\ doc # trayFile
         /\ trayFile' = doc
    /\ budget' = [budget EXCEPT !.events = @ - 1]
    /\ UNCHANGED <<this, sources, now, pc, stateFile, spawned, lastOverlayLoad,
                   lastTrayLoad, notif, host>>

\* The (file, otherFile) pairs the directory monitor may report
ChangedPairs ==
    { <<GFile("overlay.tmp"), NoGFile>>,
      <<GFile("overlay.json"), NoGFile>>,
      <<GFile("overlay.tmp"), GFile("overlay.json")>>,
      <<GFile("tray.tmp"), GFile("tray.json")>>,
      <<GFile("tray.json"), NoGFile>>,
      <<GFile("overlay.json"), GFile("tray.tmp")>>,
      <<GFile("overlay-config.json"), GFile("overlay.json.tmp")>>,
      <<NoGFile, NoGFile>> }

\* The monitor emits 'changed' with the pair (file, otherFile)
ChangedWith(pair) ==
    /\ pc = "enabled"
    /\ this._monitor
    /\ budget.events > 0
    /\ LET m == ChangedHandler(M0, pair[1], pair[2])
           basenames == Basenames(pair[1], pair[2])
       IN /\ Commit(m)
          /\ notif' =
               [overlay |-> NoteChanged(notif.overlay, "overlay", basenames,
                                        this._loadOverlayTimerId # 0,
                                        m.this._loadOverlayTimerId # 0, now),
                tray |-> NoteChanged(notif.tray, "tray", basenames,
                                     this._loadTrayTimerId # 0,
                                     m.this._loadTrayTimerId # 0, now),
                presses |-> notif.presses]
    /\ budget' = [budget EXCEPT !.events = @ - 1]
    /\ UNCHANGED <<now, pc, stateFile, trayFile, lastOverlayLoad, lastTrayLoad, host>>

Changed == \E pair \in ChangedPairs : ChangedWith(pair)

\* The debounce timeout of overlay.json fires
LoadOverlayTimer ==
    /\ pc = "enabled"
    /\ \E s \in Due("loadOverlay") :
         LET m == AfterOneShot(
                      _loadOverlayState([M0 EXCEPT !.this._loadOverlayTimerId = 0], stateFile), s)
         IN /\ Commit(m)
            /\ lastOverlayLoad' = Loaded(stateFile, now, m, "debounce", TRUE)
    /\ notif' = [notif EXCEPT !.overlay = NoteReload(@, now)]
    /\ UNCHANGED <<now, pc, stateFile, trayFile, lastTrayLoad, host, budget>>

\* The debounce timeout of tray.json fires
LoadTrayTimer ==
    /\ pc = "enabled"
    /\ \E s \in Due("loadTray") :
         LET m == AfterOneShot(
                      _loadTrayState([M0 EXCEPT !.this._loadTrayTimerId = 0], trayFile), s)
         IN /\ Commit(m)
            /\ lastTrayLoad' = LoadedTray(trayFile, now, M0, m, "debounce", ~m.threw)
    /\ notif' = [notif EXCEPT !.tray = NoteReload(@, now)]
    /\ UNCHANGED <<now, pc, stateFile, trayFile, lastOverlayLoad, host, budget>>

\* The poll timeout fires: both documents are reloaded
PollTimer ==
    /\ pc = "enabled"
    /\ \E s \in Due("poll") :
         LET m1 == _loadOverlayState(M0, stateFile)
             m2 == IF m1.threw THEN m1 ELSE _loadTrayState(m1, trayFile)
             m == AfterRepeating(m2, s, POLL_INTERVAL_MS)
         IN /\ Commit(m)
            /\ lastOverlayLoad' = Loaded(stateFile, now, m1, "poll", TRUE)
            /\ lastTrayLoad' = IF m1.threw THEN lastTrayLoad
                               ELSE LoadedTray(trayFile, now, m1, m2, "poll", ~m2.threw)
    /\ UNCHANGED <<now, pc, stateFile, trayFile, notif, host, budget>>

\* The meter timeout fires
MeterTimer ==
    /\ pc = "enabled"
    /\ \E s \in Due("meter") : Commit(AfterRepeating(MeterCallback(M0), s, METER_INTERVAL_MS))
    /\ UNCHANGED <<now, pc, stateFile, trayFile, lastOverlayLoad, lastTrayLoad, notif,
                   host, budget>>

\* The clock timeout fires
ClockTimer ==
    /\ pc = "enabled"
    /\ \E s \in Due("clock") : Commit(AfterRepeating(_updateClock(M0), s, CLOCK_INTERVAL_MS))
    /\ UNCHANGED <<now, pc, stateFile, trayFile, lastOverlayLoad, lastTrayLoad, notif,
                   host, budget>>

\* (mutation) the flash-expiry callback reverts the icon to idle
StatusCallback_revertsToIdle(m) ==
    SetIcon([m EXCEPT !.this._statusTimerId = 0], "audio-input-microphone-symbolic", "")

\* the callback of the flash-expiry timeout
StatusCallback(m) == _updateIndicator([m EXCEPT !.this._statusTimerId = 0])

\* The flash-expiry timeout fires
StatusTimer ==
    /\ pc = "enabled"
    /\ \E s \in Due("status") : Commit(AfterOneShot(StatusCallback(M0), s))
    /\ UNCHANGED <<now, pc, stateFile, trayFile, lastOverlayLoad, lastTrayLoad, notif,
                   host, budget>>

\* The click-window timeout fires
ClickTimer ==
    /\ pc = "enabled"
    /\ \E s \in Due("click") :
         Commit(AfterOneShot(_toggleRecording([M0 EXCEPT !.this._clickTimerId = 0], host), s))
    /\ UNCHANGED <<now, pc, stateFile, trayFile, lastOverlayLoad, lastTrayLoad, notif,
                   host, budget>>

\* button-press-event with the primary button
PrimaryClick ==
    /\ pc = "enabled"
    /\ budget.events > 0
    /\ Commit(_handlePrimaryClick(M0, host))
    /\ notif' = [notif EXCEPT !.presses = @ + 1]
    /\ budget' = [budget EXCEPT !.events = @ - 1]
    /\ UNCHANGED <<now, pc, stateFile, trayFile, lastOverlayLoad, lastTrayLoad, host>>

\* the handler a menu item's 'activate' signal is connected to
MenuHandler(m, h, item) ==
    CASE item = "toggle" -> _toggleRecording(m, h)
      [] item = "settings" -> _openSettings(m, h)
      [] item = "open" -> _openApp(m, h)
      [] item = "quit" -> _quitApp(m, h)

MenuItems == {"toggle", "settings", "open", "quit"}

\* The user activates an item of the indicator's menu
MenuActivateWith(item) ==
    /\ pc = "enabled"
    /\ budget.events > 0
    /\ Commit(MenuHandler(M0, host, item))
    /\ budget' = [budget EXCEPT !.events = @ - 1]
    /\ UNCHANGED <<now, pc, stateFile, trayFile, lastOverlayLoad, lastTrayLoad, notif,
                   host>>

MenuActivate == \E item \in MenuItems : MenuActivateWith(item)

Disable ==
    /\ pc = "enabled"
    /\ budget.events > 0
    /\ Commit(disable(M0))
    /\ pc' = "disabled"
    /\ budget' = [budget EXCEPT !.events = @ - 1]
    /\ UNCHANGED <<now, stateFile, trayFile, lastOverlayLoad, lastTrayLoad, notif,
                   host>>

NextDue == CHOOSE d \in {s.due : s \in sources} : \A s \in sources : d <= s.due

\* Time passes until the next timeout is due
AdvanceToTimer ==
    /\ pc = "enabled"
    /\ sources # {}
    /\ NextDue > now
    /\ NextDue <= budget.until
    /\ now' = NextDue
    /\ UNCHANGED <<this, sources, pc, stateFile, trayFile, spawned, lastOverlayLoad,
                   lastTrayLoad, notif, host, budget>>

\* A debounce or click window is open
WindowOpen == \E s \in sources : s.cb \in {"loadOverlay", "loadTray", "click"}

\* Part of an open debounce or click window passes
SmallStep ==
    /\ pc = "enabled"
    /\ WindowOpen
    /\ now + SmallStepMs < NextDue
    /\ now' = now + SmallStepMs
    /\ UNCHANGED <<this, sources, pc, stateFile, trayFile, spawned, lastOverlayLoad,
                   lastTrayLoad, notif, host, budget>>

\* Time passes while the main loop has no source to dispatch
Idle ==
    /\ pc = "enabled"
    /\ sources = {}
    /\ now + IdleStepMs <= budget.until
    /\ now' = now + IdleStepMs
    /\ UNCHANGED <<this, sources, pc, stateFile, trayFile, spawned, lastOverlayLoad,
                   lastTrayLoad, notif, host, budget>>

Next ==
    \/ EnableLoadOverlay
    \/ EnableLoadTray
    \/ WriteState
    \/ WriteTray
    \/ Changed
    \/ LoadOverlayTimer
    \/ LoadTrayTimer
    \/ PollTimer
    \/ MeterTimer
    \/ ClockTimer
    \/ StatusTimer
    \/ ClickTimer
    \/ PrimaryClick
    \/ Disable
    \/ AdvanceToTimer
    \/ SmallStep
    \/ Idle

Spec == Init /\ [][Next]_vars

SpecOverlay == InitOverlay /\ [][Next]_vars

SpecTray == InitTray /\ [][Next]_vars

SpecCrash == InitCrash /\ [][Next]_vars

SpecFlash == InitFlash /\ [][Next]_vars

\* Next together with the menu, explored where the command settings vary
NextCommand == Next \/ MenuActivate

SpecCommand == InitCommand /\ [][NextCommand]_vars

----------------------------------------------------------------------------
(* Properties *)

Pending(cb) == \E s \in sources : s.cb = cb

\* the file was read and its text parsed to a JSON object
ReadableObject(file) == file.read = "ok" /\ file.parse = "object"

\* missing, unreadable, not valid UTF-8, not valid JSON, or not an object
Malformed(file) == file.read # "ok" \/ ~file.utf8 \/ file.parse # "object"

\* the safe default of the indicator
SafeDefault ==
    /\ ~this._recording
    /\ this._startedAtMs = Null
    /\ this._level = 0
    /\ this._levelTarget = 0
    /\ ~this._overlay.visible
    /\ this._meterTimerId = 0 /\ ~Pending("meter")
    /\ this._clockTimerId = 0 /\ ~Pending("clock")

\* C1: a reload that reads recording:true with a finite updated_at_ms ends not
\* recording, without start time and with level target 0 when the update is
\* older than STALE_STATE_MS, and ends in Recording when it is exactly that old
\* or younger.
C1_StaleBeyondThresholdOnly ==
    LET L == lastOverlayLoad
        d == L.file.data
    IN (L.at # 0 /\ ReadableObject(L.file) /\ d.recording = Bool(TRUE)
        /\ NumberIsFinite(d.updated_at_ms))
       => IF L.at - d.updated_at_ms.n > STALE_STATE_MS
          THEN ~this._recording /\ this._startedAtMs = Null /\ this._levelTarget = 0
          ELSE this._recording

\* C2: once the writer has fallen silent with the document still saying
\* recording:true (no reload is pending), the indicator is out of Recording one
\* staleness window after the last update; a poll interval is allowed for the
\* reload that notices it.
C2_SelfHealsWithinWindow ==
    LET d == stateFile.data IN
    (pc = "enabled" /\ this._recording /\ ~Pending("loadOverlay")
     /\ lastOverlayLoad.file = stateFile
     /\ ReadableObject(stateFile) /\ d.recording = Bool(TRUE)
     /\ NumberIsFinite(d.updated_at_ms) /\ d.updated_at_ms.n # 0)
    => now - d.updated_at_ms.n <= STALE_STATE_MS + POLL_INTERVAL_MS

\* C3: after a reload the indicator is in Recording only if the document
\* claimed recording with an updated_at_ms that is present, finite, not 0 and
\* no older than the staleness threshold.
C3_RecordingOnlyWhenFresh ==
    LET L == lastOverlayLoad
        d == L.file.data
    IN (L.at # 0 /\ this._recording)
       => /\ ReadableObject(L.file)
          /\ Truthy(d.recording)
          /\ NumberIsFinite(d.updated_at_ms)
          /\ d.updated_at_ms.n # 0
          /\ L.at - d.updated_at_ms.n <= STALE_STATE_MS

\* C4: a reload of a missing, unreadable, non-UTF-8, non-JSON or non-object
\* primary document does not raise and leaves the safe default.
C4_MalformedGivesSafeDefault ==
    LET L == lastOverlayLoad IN
    (L.at # 0 /\ pc # "disabled" /\ Malformed(L.file)) => ~L.threw /\ SafeDefault

\* C5: a tray reload never raises, whatever the document holds, and ends with
\* the re-evaluation of the indicator.
C5_TrayReloadNeverRaises ==
    lastTrayLoad.at # 0 => ~lastTrayLoad.threw /\ lastTrayLoad.indicator

\* C6: a field of the wrong type counts as absent while the well-typed fields
\* apply: a recording field that is no boolean means not recording, and the
\* level target is the level clamped into [0, 1].
C6_WrongTypeIsAbsent ==
    LET L == lastOverlayLoad
        d == L.file.data
    IN (L.at # 0 /\ ReadableObject(L.file))
       => /\ d.recording.t # "boolean" => ~this._recording
          /\ this._levelTarget \in 0..LevelScale
          /\ (this._recording /\ NumberIsFinite(d.level))
             => this._levelTarget = Max(0, Min(LevelScale, d.level.n))
          /\ (this._recording /\ NumberIsFinite(d.started_at_ms))
             => this._startedAtMs = d.started_at_ms

Docs == {"overlay", "tray"}

DebounceCb(doc) == IF doc = "overlay" THEN "loadOverlay" ELSE "loadTray"

DebounceField(doc) == IF doc = "overlay" THEN "_loadOverlayTimerId" ELSE "_loadTrayTimerId"

SourcesOf(cb, srcs) == {s \in srcs : s.cb = cb}

\* C7: a burst of notifications for one document that begins after a quiet
\* debounce window and whose notifications all arrive less than one debounce
\* window after its first is followed by exactly one reload of that document:
\* never more than one, and one once the window has passed.
C7_OneReloadPerBurst ==
    pc = "enabled" =>
      \A doc \in Docs :
        LET g == notif[doc] IN
        (g.n > 0 /\ g.within)
        => /\ g.reloads <= 1
           /\ now > g.first + DebounceWindow(doc) => g.reloads = 1
           /\ (now = g.first + DebounceWindow(doc) /\ ~Pending(DebounceCb(doc)))
              => g.reloads = 1

\* a burst of two notifications at different times was reloaded once
C7_Witness ==
    /\ pc = "enabled"
    /\ \E doc \in Docs :
         LET g == notif[doc] IN
         g.n >= 2 /\ g.within /\ g.last > g.first /\ g.reloads = 1 /\ g.reloadAt > g.last

Notified(doc) == notif'[doc].n # notif[doc].n \/ notif'[doc].first # notif[doc].first

\* C9: the two debounce timers are independent.  Whatever the state of the
\* other timer, a notification for a document with no reload pending arms its
\* timer a debounce window ahead, and a pending reload stays as it is through
\* every step until it fires when due and reloads its document.
C9_IndependentTimers ==
    [][(pc = "enabled" /\ pc' = "enabled") =>
         \A doc \in Docs :
           /\ (Notified(doc) /\ SourcesOf(DebounceCb(doc), sources) = {})
              => \E s \in SourcesOf(DebounceCb(doc), sources') :
                     s.due = now + DebounceWindow(doc) /\ this'[DebounceField(doc)] = s.id
           /\ \A s \in SourcesOf(DebounceCb(doc), sources) :
                \/ s \in sources'
                \/ s.due <= now /\ notif'[doc].reloads = notif[doc].reloads + 1]_vars

\* both reloads are pending, armed at different times
C9_Witness ==
    /\ pc = "enabled"
    /\ Pending("loadOverlay") /\ Pending("loadTray")
    /\ notif.overlay.armedAt # notif.tray.armedAt

\* C10: a 'changed' signal schedules a reload of a document exactly when one
\* of the names it reports is the document's final or temp-write name: then a
\* reload of it is pending afterwards (newly armed one debounce window ahead
\* unless one was pending), and otherwise its timer is left as it was.
C10_SchedulesIffNamed ==
    [][\A pair \in ChangedPairs :
         ChangedWith(pair) =>
           \A doc \in Docs :
             LET cb == DebounceCb(doc)
                 before == SourcesOf(cb, sources)
                 after == SourcesOf(cb, sources')
             IN IF Relevant(Basenames(pair[1], pair[2]), doc)
                THEN /\ this'[DebounceField(doc)] # 0
                     /\ after # {}
                     /\ before # {} => after = before
                     /\ before = {} => \A s \in after : s.due = now + DebounceWindow(doc)
                ELSE /\ this'[DebounceField(doc)] = this[DebounceField(doc)]
                     /\ after = before]_vars

\* a signal that named only the primary's file scheduled only the primary
C10_Witness ==
    /\ pc = "enabled"
    /\ notif.overlay.n > 0 /\ Pending("loadOverlay")
    /\ notif.tray.n = 0 /\ ~Pending("loadTray") /\ this._loadTrayTimerId = 0

----------------------------------------------------------------------------
(* Polling fallback *)

\* the cached primary state is what _loadOverlayState makes of the file it read
OverlayReflects(file, at) ==
    LET p == ParseOverlayState(file)
        stale == IsStale(p, at)
    IN /\ this._recording = (p.recording /\ ~stale)
       /\ this._levelTarget = (IF stale \/ ~p.recording THEN 0 ELSE p.level)
       /\ this._startedAtMs = (IF stale \/ ~p.recording THEN Null ELSE p.startedAtMs)

\* the cached tray state is what _loadTrayState makes of the file it read
TrayReflects(file) ==
    LET p == ParseTrayState(file)
    IN /\ this._trayRecent = p.trayRecent
       /\ this._lastTranscriptAtMs = p.lastTranscriptAtMs
       /\ this._lastErrorAtMs = p.lastErrorAtMs
       /\ this._lastError = p.lastError
       /\ this._hotkeys = p.hotkeys

\* a poll tick is scheduled no later than one polling interval after time t
PollDueWithin(t) ==
    \E s \in sources : s.cb = "poll" /\ s.due <= t + POLL_INTERVAL_MS

\* C11: when the directory watch could not be established, the cached state is
\* that of the most recent reload of each document, and a document written
\* since its most recent reload is reloaded by a poll tick no later than one
\* polling interval after that reload (hence after the write), for as long as
\* the component is enabled.
C11_PollingDetectsWrites ==
    (pc = "enabled" /\ ~this._monitor)
    => /\ OverlayReflects(lastOverlayLoad.file, lastOverlayLoad.at)
       /\ TrayReflects(lastTrayLoad.file)
       /\ lastOverlayLoad.file # stateFile => PollDueWithin(lastOverlayLoad.at)
       /\ lastTrayLoad.file # trayFile => PollDueWithin(lastTrayLoad.at)

\* C12: once the poll timer has been installed the component stays in polling
\* mode until teardown: the poll timer is outstanding and due within one
\* interval, each tick has reloaded both documents, there is no directory
\* monitor and no debounce timer is armed.
C12_StaysInPollingMode ==
    this._pollTimerId # 0
    => /\ ~this._monitor
       /\ \E s \in sources :
            /\ s.cb = "poll" /\ s.id = this._pollTimerId
            /\ s.due >= now /\ s.due <= now + POLL_INTERVAL_MS
            /\ \A r \in sources : r.cb = "poll" => r = s
       /\ this._loadOverlayTimerId = 0 /\ ~Pending("loadOverlay")
       /\ this._loadTrayTimerId = 0 /\ ~Pending("loadTray")
       /\ pc = "enabled"
          => /\ lastOverlayLoad.at = lastTrayLoad.at
             /\ now - lastOverlayLoad.at <= POLL_INTERVAL_MS
             /\ lastOverlayLoad.via = lastTrayLoad.via

----------------------------------------------------------------------------
(* Click disambiguation *)

ToggleCommand == ShellQuote(_resolveCommand(host)) \o " --toggle"

ShowCommand == ShellQuote(_resolveCommand(host)) \o " --show"

\* this step spawns the toggle command
TogglesNow == Len(spawned') = Len(spawned) + 1 /\ spawned'[Len(spawned')] = ToggleCommand

\* this step spawns the open-app command
ShowsNow == Len(spawned') = Len(spawned) + 1 /\ spawned'[Len(spawned')] = ShowCommand

\* C13: a press while no click is pending spawns nothing and starts a click
\* window of DOUBLE_CLICK_MS; when no second press arrives the pending click
\* stays until the window has elapsed and then spawns the toggle command
\* once, clearing the pending click; the toggle command is spawned by nothing
\* else, and the open-app command is not spawned without a second press.
C13_LoneClickTogglesOnce ==
    [][(pc = "enabled" /\ pc' = "enabled") =>
         LET before == SourcesOf("click", sources)
             after == SourcesOf("click", sources')
         IN /\ \A s \in before : s.due >= now /\ s.id = this._clickTimerId
            /\ (PrimaryClick /\ before = {})
               => /\ Cardinality(after) = 1
                  /\ \A s \in after : s.due = now + DOUBLE_CLICK_MS /\ this'._clickTimerId = s.id
                  /\ spawned' = spawned
            /\ (before # {} /\ ~PrimaryClick)
               => IF after = before THEN spawned' = spawned
                  ELSE /\ \A s \in before : s.due = now
                       /\ after = {} /\ this'._clickTimerId = 0
                       /\ spawned' = Append(spawned, ToggleCommand)
            /\ TogglesNow => (before # {} /\ after = {} /\ \A s \in before : s.due = now)
            /\ ShowsNow => PrimaryClick /\ before # {}]_vars

\* one press, the window elapsed, one toggle and nothing else spawned
C13_Witness ==
    /\ pc = "enabled"
    /\ spawned = <<ToggleCommand>>
    /\ this._clickTimerId = 0 /\ ~Pending("click")

\* C14: a press while a click is pending spawns the open-app command once, in
\* that very step, and cancels the pending click: its timer is removed, so the
\* toggle command is not spawned for the pair.
C14_DoubleClickOpensApp ==
    [][(pc = "enabled" /\ PrimaryClick /\ SourcesOf("click", sources) # {})
       => /\ spawned' = Append(spawned, ShowCommand)
          /\ this'._clickTimerId = 0
          /\ sources' = sources \ SourcesOf("click", sources)
          /\ ~TogglesNow]_vars

\* two presses within a window: the app was opened, nothing was toggled and
\* no click is pending
C14_Witness ==
    /\ pc = "enabled"
    /\ spawned = <<ShowCommand>>
    /\ this._clickTimerId = 0 /\ ~Pending("click")
    /\ now < StartMs + DOUBLE_CLICK_MS

----------------------------------------------------------------------------
(* Indicator visual state *)

\* the visual state the icon shows
Visual(t) ==
    CASE t._indicatorIcon.icon_name = "media-record-symbolic"
           /\ t._indicatorIcon.style_class = "whispr-indicator-recording" -> "Recording"
      [] t._indicatorIcon.icon_name = "dialog-warning-symbolic"
           /\ t._indicatorIcon.style_class = "whispr-indicator-error" -> "ErrorFlash"
      [] t._indicatorIcon.icon_name = "emblem-ok-symbolic"
           /\ t._indicatorIcon.style_class = "whispr-indicator-success" -> "SuccessFlash"
      [] t._indicatorIcon.icon_name = "audio-input-microphone-symbolic"
           /\ t._indicatorIcon.style_class = "" -> "Idle"
      [] OTHER -> "mixed"

ErrorWithin(t, clock) ==
    t._lastErrorAtMs # Null /\ clock - t._lastErrorAtMs.n < ERROR_FLASH_MS

SuccessWithin(t, clock) ==
    t._lastTranscriptAtMs # Null /\ clock - t._lastTranscriptAtMs.n < SUCCESS_FLASH_MS

\* recording > error flash > success flash > idle
Priority(t, clock) ==
    IF t._recording THEN "Recording"
    ELSE IF ErrorWithin(t, clock) THEN "ErrorFlash"
    ELSE IF SuccessWithin(t, clock) THEN "SuccessFlash"
    ELSE "Idle"

\* this step runs _updateIndicator on the cached state it leaves behind: a
\* reload that completes, or the flash-expiry timeout
Evaluates ==
    \/ StatusTimer
    \/ EnableLoadOverlay
    \/ LoadOverlayTimer
    \/ (EnableLoadTray \/ LoadTrayTimer \/ PollTimer)
       /\ lastTrayLoad'.at = now /\ lastTrayLoad'.indicator

\* C15: every evaluation of the visual state (a reload or the flash-expiry
\* timeout) leaves the icon in the state given by the priority recording >
\* error flash > success flash > idle, computed from the cached state and the
\* current time.
C15_PriorityOnEvaluation ==
    [][Evaluates => Visual(this') = Priority(this', now)]_vars

\* both timestamps are within their windows and the error flash shows
C15_Witness ==
    /\ pc = "enabled" /\ ~this._recording
    /\ ErrorWithin(this, now) /\ SuccessWithin(this, now)
    /\ lastTrayLoad.at = now /\ lastTrayLoad.indicator
    /\ Visual(this) = "ErrorFlash"

\* the outstanding flash-expiry timers
StatusSources == SourcesOf("status", sources)

\* C16: while not recording, with a cached error timestamp and no transcript
\* newer than it, the indicator shows ErrorFlash with the flash-expiry timer
\* due at the end of the ERROR_FLASH_MS window for as long as the error is
\* within that window, and Idle once the window has elapsed.
C16_ErrorFlashThenIdle ==
    LET err == this._lastErrorAtMs
        tr == this._lastTranscriptAtMs
    IN (pc = "enabled" /\ ~this._recording /\ lastTrayLoad.indicator
        /\ err # Null /\ (tr = Null \/ tr.n <= err.n))
       => IF now - err.n < ERROR_FLASH_MS
          THEN /\ Visual(this) = "ErrorFlash"
               /\ \E s \in StatusSources :
                    /\ StatusSources = {s} /\ s.id = this._statusTimerId
                    /\ s.due = err.n + ERROR_FLASH_MS
          ELSE IF Due("status") # {}
          THEN Visual(this) = "ErrorFlash" /\ now - err.n = ERROR_FLASH_MS
          ELSE Visual(this) = "Idle" /\ StatusSources = {} /\ this._statusTimerId = 0

\* the reload saw an error exactly 1000 ms old, and the window has elapsed
C16_Witness ==
    /\ pc = "enabled" /\ ~this._recording
    /\ this._lastErrorAtMs # Null /\ this._lastTranscriptAtMs = Null
    /\ lastTrayLoad.file = trayFile
    /\ TrayReflects(trayFile)
    /\ trayFile.data.last_error_at_ms = this._lastErrorAtMs
    /\ lastTrayLoad.at - this._lastErrorAtMs.n = 1000
    /\ now - this._lastErrorAtMs.n >= ERROR_FLASH_MS
    /\ Visual(this) = "Idle"

\* C17: the indicator does not show SuccessFlash after the success flash
\* window of the cached transcript timestamp has elapsed.
C17_SuccessFlashExpires ==
    (pc = "enabled" /\ Visual(this) = "SuccessFlash")
    => /\ this._lastTranscriptAtMs # Null
       /\ now - this._lastTranscriptAtMs.n <= SUCCESS_FLASH_MS

\* C18: while a flash is displayed exactly one flash-expiry timer is
\* outstanding, held in _statusTimerId and due when the displayed flash ends.
C18_OneTimerForTheFlash ==
    (pc = "enabled" /\ Visual(this) \in {"SuccessFlash", "ErrorFlash"})
    => \E s \in StatusSources :
         /\ StatusSources = {s} /\ s.id = this._statusTimerId
         /\ s.due = IF Visual(this) = "ErrorFlash"
                    THEN this._lastErrorAtMs.n + ERROR_FLASH_MS
                    ELSE this._lastTranscriptAtMs.n + SUCCESS_FLASH_MS

\* C19 (as claimed): while not recording, a transcript timestamp within the
\* success window and no error timestamp more recent than it means the
\* indicator shows SuccessFlash.
C19_SuccessUnlessNewerError ==
    LET err == this._lastErrorAtMs
        tr == this._lastTranscriptAtMs
    IN (pc = "enabled" /\ ~this._recording /\ lastTrayLoad.indicator /\ Due("status") = {}
        /\ SuccessWithin(this, now) /\ (err = Null \/ err.n <= tr.n))
       => Visual(this) = "SuccessFlash"

\* C19 (amended): while not recording, a transcript timestamp within the
\* success window and no error timestamp within the error window means the
\* indicator shows SuccessFlash.
C19_SuccessUnlessErrorWithin ==
    (pc = "enabled" /\ ~this._recording /\ lastTrayLoad.indicator /\ Due("status") = {}
     /\ SuccessWithin(this, now) /\ ~ErrorWithin(this, now))
    => Visual(this) = "SuccessFlash"

\* a success flash shows although an error timestamp is cached
C19_Witness ==
    /\ pc = "enabled" /\ ~this._recording
    /\ SuccessWithin(this, now)
    /\ this._lastErrorAtMs # Null /\ ~ErrorWithin(this, now)
    /\ Visual(this) = "SuccessFlash"

\* C20: the flash-expiry timeout recomputes the visual state from the cached
\* state and the current time, leaves the cached state alone and clears its
\* own timer id unless the new state arms another timer.
C20_TimerRecomputes ==
    [][StatusTimer =>
         /\ Visual(this') = Priority(this', now)
         /\ this'._recording = this._recording
         /\ this'._lastErrorAtMs = this._lastErrorAtMs
         /\ this'._lastTranscriptAtMs = this._lastTranscriptAtMs
         /\ \A s \in Due("status") : s \notin sources'
         /\ IF this'._statusTimerId = 0 THEN SourcesOf("status", sources') = {}
            ELSE \E s \in sources' : s.cb = "status" /\ s.id = this'._statusTimerId
                                     /\ s.due > now]_vars

\* the error flash has expired while the transcript is within its window: the
\* timeout left SuccessFlash, not Idle
C20_Witness ==
    /\ pc = "enabled" /\ ~this._recording
    /\ this._lastErrorAtMs # Null
    /\ lastTrayLoad.at - this._lastErrorAtMs.n < ERROR_FLASH_MS
    /\ now - this._lastErrorAtMs.n >= ERROR_FLASH_MS
    /\ SuccessWithin(this, now)
    /\ Visual(this) = "SuccessFlash"

----------------------------------------------------------------------------
(* Recording, overlay, clock and meter *)

\* C21: in every state while enabled, an indicator that is recording shows
\* Recording, whatever flash timestamps are cached and whether or not a
\* flash-expiry timer left over from a flash is still outstanding.
C21_RecordingTakesPrecedence ==
    (pc = "enabled" /\ this._recording) => Visual(this) = "Recording"

\* recording began while a flash was showing (its expiry timer is still
\* outstanding, its timestamp still within the window) and the poll tick that
\* read recording:true has reloaded the tray document after it: the indicator
\* shows Recording
C21_Witness ==
    /\ pc = "enabled" /\ this._recording
    /\ StatusSources # {}
    /\ ErrorWithin(this, now) \/ SuccessWithin(this, now)
    /\ lastTrayLoad.via = "poll" /\ lastTrayLoad.indicator
    /\ lastTrayLoad.at >= lastOverlayLoad.at
    /\ Visual(this) = "Recording"

\* exactly one source with this callback is alive and the field holds its id
Running(cb, field) ==
    \E s \in SourcesOf(cb, sources) : SourcesOf(cb, sources) = {s} /\ this[field] = s.id

\* no source with this callback is alive and the field is null
Stopped(cb, field) == SourcesOf(cb, sources) = {} /\ this[field] = 0

\* C22: while enabled the overlay is visible exactly when the indicator is
\* recording and the meter ticker runs exactly when it is recording; when it
\* is not recording the clock ticker is stopped, the start time is null and
\* the smoothed level and the level target are 0.
C22_OverlayAndMeterFollowRecording ==
    pc = "enabled"
    => /\ this._overlay.visible <=> this._recording
       /\ IF this._recording THEN Running("meter", "_meterTimerId")
          ELSE Stopped("meter", "_meterTimerId")
       /\ ~this._recording
          => /\ Stopped("clock", "_clockTimerId")
             /\ this._startedAtMs = Null
             /\ this._level = 0 /\ this._levelTarget = 0

\* a not-recording document with a non-zero level was loaded after the meter
\* had run: the levels are 0 and the meter is stopped
C22_Witness ==
    /\ pc = "enabled" /\ ~this._recording
    /\ ReadableObject(lastOverlayLoad.file)
    /\ lastOverlayLoad.file.data.level = Num(30)
    /\ \E i \in 1..BAR_COUNT : this._bars[i] > BAR_MIN_HEIGHT
    /\ this._level = 0 /\ this._levelTarget = 0 /\ ~this._overlay.visible

\* C23: while enabled the clock ticker runs exactly when the indicator is
\* recording with a start time, and the clock label is visible under the same
\* condition.
C23_ClockFollowsStartTime ==
    pc = "enabled"
    => LET on == this._recording /\ Truthy(this._startedAtMs) IN
       /\ IF on THEN Running("clock", "_clockTimerId") ELSE Stopped("clock", "_clockTimerId")
       /\ this._timeLabel.visible <=> on

\* this step is a primary reload
ReloadsOverlay == EnableLoadOverlay \/ LoadOverlayTimer \/ PollTimer

\* M:SS of the time elapsed since the start time
ClockText(started, clock) ==
    LET elapsed == (clock - started) \div 1000
        ss == elapsed % 60
    IN ToString(elapsed \div 60) \o ":" \o ToString(ss \div 10) \o ToString(ss % 10)

BarHeight(level, i) ==
    RoundDiv(BAR_MIN_HEIGHT * LevelScale * 100
             + (BAR_MAX_HEIGHT - BAR_MIN_HEIGHT) * Max(0, Min(LevelScale, level)) * BAR_WEIGHTS[i],
             LevelScale * 100)

\* C26: while enabled and not recording the meter ticker is stopped and every
\* bar is at the minimum height.
C26_BarsResetWhenNotRecording ==
    (pc = "enabled" /\ ~this._recording)
    => /\ Stopped("meter", "_meterTimerId")
       /\ \A i \in 1..BAR_COUNT : this._bars[i] = BAR_MIN_HEIGHT

\* C27: a primary reload that finds the indicator recording and leaves it
\* recording leaves the meter source as it is (same id, same due time) and the
\* smoothed level unchanged, and sets the level target to the document's
\* clamped level; every meter tick re-arms the source one METER_INTERVAL_MS
\* after the tick that was due.
C27_MeterIndependentOfReloads ==
    [][/\ ((LoadOverlayTimer \/ PollTimer) /\ this._recording /\ this'._recording)
          => /\ SourcesOf("meter", sources') = SourcesOf("meter", sources)
             /\ this'._meterTimerId = this._meterTimerId
             /\ this'._level = this._level
             /\ this'._levelTarget = ParseOverlayState(stateFile).level
       /\ MeterTimer
          => \A s \in Due("meter") :
               s.due = now /\ [s EXCEPT !.due = now + METER_INTERVAL_MS] \in sources']_vars

\* recording since enable, reloaded by a poll tick that is out of phase with
\* the meter: the meter still ticks in the phase of its start and the smoothed
\* level has not been reset
C27_Witness ==
    /\ pc = "enabled" /\ this._recording
    /\ lastOverlayLoad.via = "poll"
    /\ (lastOverlayLoad.at - StartMs) % METER_INTERVAL_MS # 0
    /\ \E s \in SourcesOf("meter", sources) : (s.due - StartMs) % METER_INTERVAL_MS = 0
    /\ this._level > 0

\* levels within [0, 1], bars within the minimum and maximum height
LevelsInRange ==
    /\ this._levelTarget \in 0..LevelScale
    /\ this._level \in 0..LevelScale
    /\ \A i \in 1..BAR_COUNT : this._bars[i] \in BAR_MIN_HEIGHT..BAR_MAX_HEIGHT
    /\ Len(BAR_WEIGHTS) = BAR_COUNT
    /\ \A i \in 1..BAR_COUNT : BAR_WEIGHTS[i] = BAR_WEIGHTS[BAR_COUNT + 1 - i]

\* C28: in every state the level target and the smoothed level are within
\* [0, 1] and the bars within the minimum and maximum height, the weight
\* profile is symmetric over the BAR_COUNT bars, and every meter tick leaves
\* each bar at round(min + (max - min) * smoothed * weight).
C28_LevelsAndBarsInRange ==
    /\ []LevelsInRange
    /\ [][MeterTimer
          => \A i \in 1..BAR_COUNT : this'._bars[i] = BarHeight(this'._level, i)]_vars

\* a document with level 1.5 was loaded: the target is 1 and the bars follow
\* the weight profile up to the maximum height
C28_Witness ==
    /\ pc = "enabled" /\ this._recording
    /\ lastOverlayLoad.file.data.level = Num(150)
    /\ this._levelTarget = LevelScale
    /\ this._bars[4] = BAR_MAX_HEIGHT
    /\ this._bars[1] < this._bars[2] /\ this._bars[1] > BAR_MIN_HEIGHT

\* the distance of a smoothed level from the level target
Distance(level) ==
    IF this._levelTarget >= level THEN this._levelTarget - level ELSE level - this._levelTarget

C29_TeardownCancelsEverything ==
    pc = "disabled"
    => /\ sources = {}
       /\ \A f \in TimerFields : this[f] = 0
       /\ ~this._monitor
       /\ ~this._overlay.exists /\ ~this._indicatorIcon.exists

\* torn down in poll mode while recording with a start time: the poll, meter
\* and clock timeouts were outstanding when disable ran
C29_Witness ==
    /\ pc = "disabled"
    /\ this._recording /\ Truthy(this._startedAtMs)
    /\ lastOverlayLoad.via = "poll"
    /\ sources = {}

\* the cached secondary fields hold their defaults
TrayDefaults ==
    /\ this._trayRecent = Recent("array", <<>>)
    /\ this._lastTranscriptAtMs = Null
    /\ this._lastErrorAtMs = Null
    /\ this._lastError = Null
    /\ this._hotkeys = Hotkeys("object", Undefined, Undefined)

\* C30: while enabled, once the secondary document has been loaded, every
\* cached secondary field equals the value parsed from the document of the
\* last load or its default; when that load could not read an object, all of
\* them hold their defaults and, unless the indicator is recording, the
\* indicator is Idle and no flash-expiry timeout is outstanding.
C30_ReloadReplacesCachedState ==
    (pc = "enabled" /\ lastTrayLoad.via # "none")
    => /\ TrayReflects(lastTrayLoad.file)
       /\ ~ReadableObject(lastTrayLoad.file)
          => /\ TrayDefaults
             /\ ~this._recording
                => /\ Visual(this) = "Idle"
                   /\ StatusSources = {} /\ this._statusTimerId = 0

\* a reload that could not read the document found a flash icon on the
\* indicator and left it Idle with no flash-expiry timeout
C30_Witness ==
    /\ pc = "enabled" /\ ~this._recording
    /\ lastTrayLoad.via \in {"poll", "debounce"}
    /\ ~ReadableObject(lastTrayLoad.file)
    /\ lastTrayLoad.over \in {"dialog-warning-symbolic", "emblem-ok-symbolic"}
    /\ lastTrayLoad.at = now
    /\ Visual(this) = "Idle" /\ StatusSources = {} /\ TrayDefaults

(* External actions *)

NonBlank(str) == \E i \in 1..Len(str) : SubSeq(str, i, i) # " "

\* the executable the resolution order names for the host's settings
ResolvedExecutable ==
    IF host.WHISPR_BIN.t = "string" /\ NonBlank(host.WHISPR_BIN.s)
    THEN Trim(host.WHISPR_BIN.s)
    ELSE IF /\ ReadableObject(host.configFile)
            /\ host.configFile.data.binary.t = "string"
            /\ NonBlank(host.configFile.data.binary.s)
    THEN Trim(host.configFile.data.binary.s)
    ELSE "whispr"

\* the command line of an external action
CommandLine(flag) == "'" \o ResolvedExecutable \o "' " \o flag

\* C31: every step that invokes an external action appends exactly one
\* command line, the resolved executable (environment override if set and
\* non-blank, else the configuration file's non-blank string binary, else the
\* default name) followed by one flag of the fixed set, and the flag is the
\* one of the action: --toggle for the menu's toggle item and an expired click
\* window, --show for the open item and a double click, --show-settings for
\* settings, --quit for quit; every activation of a menu item invokes one.
C31_ExternalActions ==
    [][/\ spawned' # spawned
          => \E flag \in {"--toggle", "--show", "--show-settings", "--quit"} :
               /\ spawned' = Append(spawned, CommandLine(flag))
               /\ (ClickTimer \/ MenuActivateWith("toggle")) => flag = "--toggle"
               /\ (PrimaryClick \/ MenuActivateWith("open")) => flag = "--show"
               /\ MenuActivateWith("settings") => flag = "--show-settings"
               /\ MenuActivateWith("quit") => flag = "--quit"
       /\ (MenuActivate \/ ClickTimer) => Len(spawned') = Len(spawned) + 1]_vars

\* the environment override is blank and the configuration file names the
\* binary: settings was activated and then the app opened
C31_Witness ==
    /\ host.WHISPR_BIN = Str("  ")
    /\ host.configFile = ConfigObject(Str(" /usr/local/bin/whispr "))
    /\ spawned = <<"'/usr/local/bin/whispr' --show-settings", "'/usr/local/bin/whispr' --show">>

\* how often a command line was spawned
Spawns(command) == Cardinality({i \in 1..Len(spawned) : spawned[i] = command})

\* the presses that have not been answered by an action: each open-app
\* command answers a pair, each toggle command a single press
Unanswered == notif.presses - 2 * Spawns(ShowCommand) - Spawns(ToggleCommand)

\* C32: while enabled, after any sequence of presses the click disambiguator
\* is either idle (no click timeout, null handle, every press answered: pairs
\* by one open-app command each, single presses by one toggle command each)
\* or holds one pending click (one click timeout referenced by the handle, due
\* within one click window, exactly one press unanswered); nothing but presses
\* spawns commands.
C32_ClickMachineHasTwoStates ==
    pc = "enabled"
    => /\ Len(spawned) = Spawns(ShowCommand) + Spawns(ToggleCommand)
       /\ \/ Stopped("click", "_clickTimerId") /\ Unanswered = 0
          \/ /\ Running("click", "_clickTimerId")
             /\ Unanswered = 1
             /\ \A s \in SourcesOf("click", sources) :
                  s.due >= now /\ s.due <= now + DOUBLE_CLICK_MS

\* three presses: a double click opened the app, the third press stayed alone
\* and toggled when its window elapsed, and nothing is pending
C32_Witness ==
    /\ pc = "enabled"
    /\ notif.presses = 3
    /\ spawned = <<ShowCommand, ToggleCommand>>
    /\ Stopped("click", "_clickTimerId")

\* C35: once disabled no click timeout is left, and the commands spawned
\* answer all presses but at most one: the click that was pending at teardown
\* has neither toggled nor opened the app.
C35_TeardownDropsPendingClick ==
    pc = "disabled"
    => /\ Stopped("click", "_clickTimerId")
       /\ Unanswered \in {0, 1}
       /\ Len(spawned) = Spawns(ShowCommand) + Spawns(ToggleCommand)

\* torn down with a click pending: one press is left unanswered
C35_Witness ==
    /\ pc = "disabled"
    /\ notif.presses = 1
    /\ spawned = <<>>
    /\ sources = {}

(* Notifications and timers *)

\* C33: in watch mode, while enabled, every relevant notification for a
\* document that no reload has followed yet has that document's debounce
\* timeout pending, referenced by its handle and due no later than one
\* debounce window after the earliest such notification; and the reload that
\* followed the latest notification came no more than one window after the
\* earliest notification it answered and not before the latest.
C33_NoChangeLost ==
    (pc = "enabled" /\ this._monitor)
    => \A doc \in Docs :
         LET g == notif[doc] IN
         IF ~g.answered
         THEN \E s \in SourcesOf(DebounceCb(doc), sources) :
                /\ this[DebounceField(doc)] = s.id
                /\ s.due >= now
                /\ s.due <= g.since + DebounceWindow(doc)
         ELSE g.n > 0
              => /\ g.reloadAt >= g.last
                 /\ g.reloadAt <= g.since + DebounceWindow(doc)
                 /\ (IF doc = "overlay" THEN lastOverlayLoad ELSE lastTrayLoad).at
                      >= g.reloadAt

\* the primary document was notified twice, the second time while the timeout
\* was pending, then reloaded one window after the first notification, and
\* notified again just after that reload
C33_Witness ==
    /\ pc = "enabled" /\ this._monitor
    /\ notif.overlay.reloadAt > 0
    /\ notif.overlay.reloadLag = LOAD_OVERLAY_DELAY_MS
    /\ notif.overlay.reloadGap < LOAD_OVERLAY_DELAY_MS
    /\ ~notif.overlay.answered
    /\ notif.overlay.since = notif.overlay.reloadAt
    /\ Pending("loadOverlay")

\* the seven timer kinds: the callback and the handle field of each
TimerKinds ==
    { <<"loadOverlay", "_loadOverlayTimerId">>, <<"loadTray", "_loadTrayTimerId">>,
      <<"meter", "_meterTimerId">>, <<"clock", "_clockTimerId">>,
      <<"status", "_statusTimerId">>, <<"click", "_clickTimerId">>,
      <<"poll", "_pollTimerId">> }

\* C34: while enabled, each of the seven timer kinds has at most one timeout
\* outstanding, and its handle field is non-null exactly when one is, holding
\* its id.
C34_HandlesMatchTimers ==
    pc = "enabled"
    => \A k \in TimerKinds : Running(k[1], k[2]) \/ Stopped(k[1], k[2])

(* Frame effects and the displayed state *)

\* the cached fields of the secondary document
TrayFields(t) ==
    <<t._trayRecent, t._lastTranscriptAtMs, t._lastErrorAtMs, t._lastError, t._hotkeys>>

\* what belongs to the primary document: recording flag, start time, levels,
\* overlay visibility, and the meter and clock tickers
OverlayFields(t, srcs) ==
    <<t._recording, t._startedAtMs, t._levelTarget, t._level, t._overlay.visible,
      t._meterTimerId, t._clockTimerId, SourcesOf("meter", srcs), SourcesOf("clock", srcs)>>

\* C36: a primary reload (at enable, after a debounce, or as the first half of
\* a poll tick) leaves the cached secondary fields as they were, and a
\* secondary reload (at enable, after a debounce, or as the second half of a
\* poll tick) leaves the recording flag, the start time, both levels, the
\* overlay's visibility and the meter and clock tickers as they were.
C36_ReloadsLeaveTheOtherDocument ==
    [][/\ (EnableLoadOverlay \/ LoadOverlayTimer) => TrayFields(this') = TrayFields(this)
       /\ (EnableLoadTray \/ LoadTrayTimer)
          => OverlayFields(this', sources') = OverlayFields(this, sources)
       /\ PollTimer
          => LET m1 == _loadOverlayState(M0, stateFile) IN
             /\ TrayFields(m1.this) = TrayFields(this)
             /\ ~m1.threw
                => OverlayFields(this', sources') = OverlayFields(m1.this, m1.sources)]_vars

\* recording with the meter under way and a transcript and an error cached:
\* the poll tick reloaded both documents, the secondary one last
C36_Witness ==
    /\ pc = "enabled" /\ this._recording /\ this._level > 0
    /\ Truthy(this._lastErrorAtMs)
    /\ this._trayRecent.items # <<>>
    /\ lastTrayLoad.via = "poll" /\ lastTrayLoad.at = now
    /\ lastOverlayLoad.at = now

\* C37: while enabled, the indicator shows ErrorFlash only while the cached
\* error timestamp is within ERROR_FLASH_MS of the current time and
\* SuccessFlash only while the cached transcript timestamp is within
\* SUCCESS_FLASH_MS (the instant at which the flash-expiry timeout is due
\* included), and it does not show Idle while recording.
C37_VisualFollowsCachedStateAndTime ==
    pc = "enabled"
    => /\ Visual(this) = "ErrorFlash"
          => /\ this._lastErrorAtMs # Null
             /\ now - this._lastErrorAtMs.n <= ERROR_FLASH_MS
       /\ Visual(this) = "SuccessFlash"
          => /\ this._lastTranscriptAtMs # Null
             /\ now - this._lastTranscriptAtMs.n <= SUCCESS_FLASH_MS
       /\ this._recording => Visual(this) # "Idle"

====
